---- MODULE Spec2Model ----
(***************************************************************************)
(* A model of boozetools/parsing/context_free.py: the attributed           *)
(* context-free grammar with operator-precedence declarations.             *)
(*                                                                         *)
(* The grammar object is the state.  Each public method is one action; a   *)
(* method that raises leaves behind exactly the mutations the code made    *)
(* before the raise, and the exception's name is recorded in `outcome`.    *)
(*                                                                         *)
(* Python values are rendered as follows:                                  *)
(*   None                    the string "None" (no symbol bears that name) *)
(*   LEFT, RIGHT, ...        the strings "LEFT", "RIGHT", ...              *)
(*   a list                  a sequence; rule ids and precedence levels    *)
(*                           keep the code's 0-based numbering             *)
(*   a dict                  a function whose DOMAIN is the key set        *)
(*   places                  [kind, at]: kind is "int" for a bare          *)
(*                           position (at = <<p>>), "list" for a list or   *)
(*                           tuple of positions, "other" for anything else *)
(***************************************************************************)
EXTENDS Integers, Sequences, FiniteSets, TLC

VARIABLES
    symbols,            \* self.symbols: set of symbol names
    start,              \* self.start: list of start symbols
    rules,              \* self.rules: list of Rule tuples
    token_precedence,   \* self.token_precedence: symbol -> level
    level_assoc,        \* self.level_assoc: list of associativity tags
    symbol_rule_ids,    \* self.symbol_rule_ids: lhs -> list of rule ids
    outcome             \* what the last call returned or raised

grammar == <<symbols, start, rules, token_precedence, level_assoc, symbol_rule_ids>>
vars == <<symbols, start, rules, token_precedence, level_assoc, symbol_rule_ids, outcome>>

(***************************************************************************)
(* Bounds of the model.                                                    *)
(***************************************************************************)
MaxRules == 2
MaxLevels == 2
MaxGrammar == 3
MaxFirstRules == 3
MaxRenameRules == 3

(***************************************************************************)
(* Python helpers.                                                         *)
(***************************************************************************)
NoneVal == "None"

LEFT == "LEFT"
RIGHT == "RIGHT"
NONASSOC == "NONASSOC"
BOGUS == "BOGUS"

Directions == {LEFT, RIGHT, NONASSOC, BOGUS}

EmptyDict == [k \in {} |-> 0]

\* d[k] = v on a dict
DictSet(d, k, v) == [x \in (DOMAIN d) \cup {k} |-> IF x = k THEN v ELSE d[x]]

Range(s) == {s[i] : i \in 1..Len(s)}

\* The element of a Python list at a 0-based index.
At(list, i) == list[i + 1]

\* foundation.allocate(a_list, item): append the item, return its index.
allocate(a_list, item) == [list |-> Append(a_list, item), index |-> Len(a_list)]

Rule(lhs, rhs, prec_sym, constructor, places, origin) ==
    [lhs |-> lhs, rhs |-> rhs, prec_sym |-> prec_sym,
     constructor |-> constructor, places |-> places, origin |-> origin]

Position(p) == [kind |-> "int", at |-> <<p>>]
Positions(ps) == [kind |-> "list", at |-> ps]

\* Rule.is_rename
is_rename(r) ==
    r.constructor = NoneVal /\ Len(r.rhs) = 1 /\ r.places = Position(0)

(***************************************************************************)
(* ContextFreeGrammar.__init__                                             *)
(***************************************************************************)
Init ==
    /\ symbols = {}
    /\ start = <<>>
    /\ rules = <<>>
    /\ token_precedence = EmptyDict
    /\ level_assoc = <<>>
    /\ symbol_rule_ids = EmptyDict
    /\ outcome = [op |-> "init", raised |-> NoneVal]

(***************************************************************************)
(* ContextFreeGrammar.rule                                                 *)
(***************************************************************************)
\* The two assertions on `places` (one per branch of the isinstance test).
PlacesAccepted(rhs, constructor, places) ==
    IF places.kind = "int"
    THEN /\ constructor = NoneVal
         /\ 0 <= places.at[1]
         /\ places.at[1] < Len(rhs)
    ELSE /\ places.kind = "list"
         /\ \A i \in 1..Len(places.at) : places.at[i] < Len(rhs)

\* any(self.rules[rule_id].rhs == rhs for rule_id in sri)
IsDuplicate(rule_list, sri, rhs) ==
    \E k \in 1..Len(sri) : At(rule_list, sri[k]).rhs = rhs

\* rule() testing for a duplicate before it checks `places`.
RuleRaisesDuplicateFirst(lhs, rhs, constructor, places) ==
    IF lhs \in DOMAIN token_precedence THEN "NonTerminalsCannotHavePrecedence"
    ELSE IF /\ lhs \in DOMAIN symbol_rule_ids
            /\ IsDuplicate(rules, symbol_rule_ids[lhs], rhs) THEN "DuplicateRule"
    ELSE IF ~PlacesAccepted(rhs, constructor, places) THEN "AssertionError"
    ELSE NoneVal

\* The exception the call raises in the current state, or None.
RuleRaises(lhs, rhs, constructor, places) ==
    IF lhs \in DOMAIN token_precedence THEN "NonTerminalsCannotHavePrecedence"
    ELSE IF ~PlacesAccepted(rhs, constructor, places) THEN "AssertionError"
    ELSE IF /\ lhs \in DOMAIN symbol_rule_ids
            /\ IsDuplicate(rules, symbol_rule_ids[lhs], rhs) THEN "DuplicateRule"
    ELSE NoneVal

rule(lhs, rhs, prec_sym, constructor, places, origin) ==
    LET raised == RuleRaises(lhs, rhs, constructor, places)
        sri0 == IF lhs \in DOMAIN symbol_rule_ids
                THEN symbol_rule_ids
                ELSE DictSet(symbol_rule_ids, lhs, <<>>)
        new == allocate(rules, Rule(lhs, rhs, prec_sym, constructor, places, origin))
    IN  /\ outcome' = [op |-> "rule", raised |-> raised,
                       arg |-> Rule(lhs, rhs, prec_sym, constructor, places, origin)]
        /\ UNCHANGED <<start, token_precedence, level_assoc>>
        /\ IF raised = "NonTerminalsCannotHavePrecedence"
           THEN UNCHANGED <<symbols, symbol_rule_ids, rules>>
           ELSE /\ symbols' = symbols \cup {lhs} \cup Range(rhs)
                /\ IF raised = NoneVal
                   THEN /\ rules' = new.list
                        /\ symbol_rule_ids' =
                             DictSet(sri0, lhs, Append(sri0[lhs], new.index))
                   ELSE /\ rules' = rules
                        /\ symbol_rule_ids' = sri0

(***************************************************************************)
(* ContextFreeGrammar.assoc                                                *)
(***************************************************************************)
RECURSIVE AssocLoopUnguarded(_, _, _, _)
\* The loop of assoc without its test for symbols that own rules.
AssocLoopUnguarded(tp, level, syms, i) ==
    IF i > Len(syms) THEN [tp |-> tp, raised |-> NoneVal]
    ELSE IF syms[i] \in DOMAIN tp
         THEN [tp |-> tp, raised |-> "PrecedenceDeclaredTwice"]
    ELSE AssocLoopUnguarded(DictSet(tp, syms[i], level), level, syms, i + 1)

RECURSIVE AssocLoop(_, _, _, _)
\* for symbol in symbols: ...   Returns the dict and the exception raised.
AssocLoop(tp, level, syms, i) ==
    IF i > Len(syms) THEN [tp |-> tp, raised |-> NoneVal]
    ELSE IF syms[i] \in DOMAIN symbol_rule_ids
         THEN [tp |-> tp, raised |-> "NonTerminalsCannotHavePrecedence"]
    ELSE IF syms[i] \in DOMAIN tp
         THEN [tp |-> tp, raised |-> "PrecedenceDeclaredTwice"]
    ELSE AssocLoop(DictSet(tp, syms[i], level), level, syms, i + 1)

assoc(direction, syms) ==
    IF ~(direction \in Directions /\ Len(syms) > 0)
    THEN /\ outcome' = [op |-> "assoc", raised |-> "AssertionError",
                       direction |-> direction, syms |-> syms]
         /\ UNCHANGED grammar
    ELSE LET new == allocate(level_assoc, direction)
             done == AssocLoop(token_precedence, new.index, syms, 1)
         IN  /\ level_assoc' = new.list
             /\ token_precedence' = done.tp
             /\ outcome' = [op |-> "assoc", raised |-> done.raised,
                           direction |-> direction, syms |-> syms]
             /\ UNCHANGED <<symbols, start, rules, symbol_rule_ids>>

(***************************************************************************)
(* ContextFreeGrammar.infer_prec_sym, determine_rule_precedence,           *)
(* decide_shift_reduce                                                     *)
(***************************************************************************)
RECURSIVE InferFrom(_, _)
InferFrom(rhs, i) ==
    IF i > Len(rhs) THEN NoneVal
    ELSE IF rhs[i] \in DOMAIN token_precedence THEN rhs[i]
    ELSE InferFrom(rhs, i + 1)

infer_prec_sym(rhs) == InferFrom(rhs, 1)

\* Python truth of a symbol-or-None value.
Truthy(x) == x \notin {NoneVal, ""}

\* determine_rule_precedence that ignores the rule's explicit prec_sym.
determine_rule_precedence_inferred(rule_id) ==
    LET prec_sym == infer_prec_sym(At(rules, rule_id).rhs)
    IN  IF ~Truthy(prec_sym) THEN [raised |-> NoneVal, none |-> TRUE, level |-> 0]
        ELSE [raised |-> NoneVal, none |-> FALSE, level |-> token_precedence[prec_sym]]

\* [raised, none, level]: a KeyError, a None result, or a level.
determine_rule_precedence(rule_id) ==
    LET r == At(rules, rule_id)
        prec_sym == IF Truthy(r.prec_sym) THEN r.prec_sym ELSE infer_prec_sym(r.rhs)
    IN  IF ~Truthy(prec_sym) THEN [raised |-> NoneVal, none |-> TRUE, level |-> 0]
        ELSE IF prec_sym \notin DOMAIN token_precedence
             THEN [raised |-> "KeyError", none |-> FALSE, level |-> 0]
        ELSE [raised |-> NoneVal, none |-> FALSE, level |-> token_precedence[prec_sym]]

\* decide_shift_reduce with the two unequal-level answers exchanged.
decide_shift_reduce_exchanged(symbol, rule_id) ==
    IF symbol \notin DOMAIN token_precedence THEN [raised |-> NoneVal, ret |-> NoneVal]
    ELSE LET sp == token_precedence[symbol]
             rp == determine_rule_precedence(rule_id)
         IN  IF rp.raised # NoneVal THEN [raised |-> rp.raised, ret |-> NoneVal]
             ELSE IF rp.none THEN [raised |-> NoneVal, ret |-> NoneVal]
             ELSE IF rp.level < sp THEN [raised |-> NoneVal, ret |-> RIGHT]
             ELSE IF rp.level = sp THEN [raised |-> NoneVal, ret |-> At(level_assoc, rp.level)]
             ELSE [raised |-> NoneVal, ret |-> LEFT]

\* [raised, ret]: ret is "None" or an associativity tag.
decide_shift_reduce(symbol, rule_id) ==
    IF symbol \notin DOMAIN token_precedence THEN [raised |-> NoneVal, ret |-> NoneVal]
    ELSE LET sp == token_precedence[symbol]
             rp == determine_rule_precedence(rule_id)
         IN  IF rp.raised # NoneVal THEN [raised |-> rp.raised, ret |-> NoneVal]
             ELSE IF rp.none THEN [raised |-> NoneVal, ret |-> NoneVal]
             ELSE IF rp.level < sp THEN [raised |-> NoneVal, ret |-> LEFT]
             ELSE IF rp.level = sp THEN [raised |-> NoneVal, ret |-> At(level_assoc, rp.level)]
             ELSE [raised |-> NoneVal, ret |-> RIGHT]

DecideShiftReduce(symbol, rule_id) ==
    LET d == decide_shift_reduce(symbol, rule_id)
    IN  /\ outcome' = [op |-> "decide_shift_reduce", raised |-> d.raised,
                       symbol |-> symbol, rule_id |-> rule_id, ret |-> d.ret]
        /\ UNCHANGED grammar

(***************************************************************************)
(* Graph utilities of the support library (boozetools.support.foundation), *)
(* over a dict from node to set of successors.                             *)
(***************************************************************************)
Successors(graph, n) == IF n \in DOMAIN graph THEN graph[n] ELSE {}

Nodes(graph) == (DOMAIN graph) \cup UNION {graph[n] : n \in DOMAIN graph}

RECURSIVE Closure(_, _)
\* The nodes reachable from the set `seen`, its own members included.
Closure(graph, seen) ==
    LET more == seen \cup UNION {Successors(graph, n) : n \in seen}
    IN  IF more = seen THEN seen ELSE Closure(graph, more)

\* foundation.transitive_closure(roots, successors)
transitive_closure(roots, graph) == Closure(graph, roots)

ComponentOf(graph, n) ==
    {m \in Closure(graph, {n}) : n \in Closure(graph, {m})}

Components(graph) == {ComponentOf(graph, n) : n \in Nodes(graph)}

RECURSIVE InDependencyOrder(_, _, _)
\* The components, each one after every other component it leads to.
InDependencyOrder(graph, remaining, emitted) ==
    IF remaining = {} THEN emitted
    ELSE LET done == UNION Range(emitted)
             ready == {c \in remaining :
                         \A n \in c : Successors(graph, n) \subseteq (c \cup done)}
             c == CHOOSE c \in ready : TRUE
         IN  InDependencyOrder(graph, remaining \ {c}, Append(emitted, c))

\* foundation.strongly_connected_components_hashable(graph)
strongly_connected_components_hashable(graph) ==
    InDependencyOrder(graph, Components(graph), <<>>)

RECURSIVE Listed(_)
\* The members of a component in the order the loop visits them.
Listed(set) ==
    IF set = {} THEN <<>>
    ELSE LET x == CHOOSE x \in set : TRUE IN <<x>> \o Listed(set \ {x})

(***************************************************************************)
(* ContextFreeGrammar.apparent_terminals, find_first_and_epsilon           *)
(***************************************************************************)
apparent_terminals == symbols \ (DOMAIN symbol_rule_ids)

RECURSIVE SumOfLengths(_)
SumOfLengths(rule_list) ==
    IF rule_list = <<>> THEN 0
    ELSE Len(Head(rule_list).rhs) + 1 + SumOfLengths(Tail(rule_list))

\* The number of (rule, position) pairs there are: no run of the loop that
\* visits each pair at most once is longer.
WorkBudget == SumOfLengths(rules)

RECURSIVE WorkLoop(_, _, _, _, _)
\* while work: ...   The loop is cut off (halted = FALSE) past WorkBudget turns.
WorkLoop(work, hangar, epsilon, first, turns) ==
    IF work = <<>>
    THEN [first |-> first, epsilon |-> epsilon, halted |-> TRUE, turns |-> turns]
    ELSE IF turns >= WorkBudget
    THEN [first |-> first, epsilon |-> epsilon, halted |-> FALSE, turns |-> turns]
    ELSE LET r == work[Len(work)][1]
             p == work[Len(work)][2]
             rest == SubSeq(work, 1, Len(work) - 1)
             lhs == At(rules, r).lhs
             rhs == At(rules, r).rhs
         IN  IF p = Len(rhs)
             THEN WorkLoop(IF lhs \in DOMAIN hangar THEN rest \o hangar[lhs] ELSE rest,
                           [k \in (DOMAIN hangar) \ {lhs} |-> hangar[k]],
                           epsilon \cup {lhs}, first, turns + 1)
             ELSE LET symbol == At(rhs, p)
                      added == [first EXCEPT ![lhs] = @ \cup {symbol}]
                  IN  IF symbol \in epsilon
                      THEN WorkLoop(Append(rest, <<r, p + 1>>), hangar, epsilon,
                                    added, turns + 1)
                      ELSE WorkLoop(rest,
                                    DictSet(hangar, symbol,
                                            Append(IF symbol \in DOMAIN hangar
                                                   THEN hangar[symbol] ELSE <<>>,
                                                   <<r, p + 1>>)),
                                    epsilon, added, turns + 1)

RECURSIVE MergeComponent(_, _, _, _)
\* for symbol in component: f.update(...); first[symbol] = f
\* The members already visited share the one set f.
MergeComponent(first, members, i, f) ==
    IF i > Len(members) THEN f
    ELSE LET visited == {members[k] : k \in 1..(i - 1)}
             current(x) == IF x \in visited THEN f ELSE first[x]
         IN  MergeComponent(first, members, i + 1,
                            f \cup UNION {current(x) : x \in current(members[i])})

\* Nothing is taken out of the merged set.
StrippedNothing == {}

\* What is taken out of the merged set of a component.
Stripped == DOMAIN symbol_rule_ids

RECURSIVE MergeAll(_, _, _)
\* for component in strongly_connected_components_hashable(first): ...
MergeAll(first, components, i) ==
    IF i > Len(components) THEN first
    ELSE LET f == MergeComponent(first, Listed(components[i]), 1, {}) \ Stripped
         IN  MergeAll([x \in DOMAIN first |-> IF x \in components[i] THEN f ELSE first[x]],
                      components, i + 1)

\* [first, epsilon, halted]
find_first_and_epsilon ==
    LET loop == WorkLoop([i \in 1..Len(rules) |-> <<i - 1, 0>>], EmptyDict, {},
                         [s \in symbols |-> {s}], 0)
    IN  [first |-> MergeAll(loop.first,
                            strongly_connected_components_hashable(loop.first), 1),
         epsilon |-> loop.epsilon,
         halted |-> loop.halted]

FindFirstAndEpsilon ==
    /\ outcome' = [op |-> "find_first_and_epsilon", raised |-> NoneVal,
                   ret |-> find_first_and_epsilon]
    /\ UNCHANGED grammar

(***************************************************************************)
(* The structural validators and ContextFreeGrammar.validate.  Each        *)
(* assert_* is the fault it raises: [fault, symbols, rule_id], with fault  *)
(* "None" when it returns normally.                                        *)
(***************************************************************************)
NoFault == [fault |-> NoneVal, symbols |-> {}, rule_id |-> -1]
FaultOn(name, cited) == [fault |-> name, symbols |-> cited, rule_id |-> -1]

assert_no_bogons ==
    LET bogons == {sym \in DOMAIN token_precedence :
                       At(level_assoc, token_precedence[sym]) = BOGUS}
        bad == {i \in 1..Len(rules) : Range(rules[i].rhs) \cap bogons # {}}
    IN  IF bad = {} THEN NoFault
        ELSE [fault |-> "RuleProducesBogusToken", symbols |-> {},
              rule_id |-> (CHOOSE i \in bad : \A j \in bad : i <= j) - 1]

RECURSIVE WellFoundedPass(_, _, _, _)
\* for rule in black: ...   Returns the grown set and the list red.
WellFoundedPass(black, i, well_founded, red) ==
    IF i > Len(black) THEN [well_founded |-> well_founded, red |-> red]
    ELSE IF black[i].lhs \in well_founded
         THEN WellFoundedPass(black, i + 1, well_founded, red)
    ELSE IF Range(black[i].rhs) \subseteq well_founded
         THEN WellFoundedPass(black, i + 1, well_founded \cup {black[i].lhs}, red)
    ELSE WellFoundedPass(black, i + 1, well_founded, Append(red, black[i]))

RECURSIVE WellFoundedLoop(_, _)
\* while black: ...
WellFoundedLoop(well_founded, black) ==
    IF black = <<>> THEN NoFault
    ELSE LET pass == WellFoundedPass(black, 1, well_founded, <<>>)
         IN  IF Len(pass.red) < Len(black)
             THEN WellFoundedLoop(pass.well_founded, pass.red)
             ELSE FaultOn("IllFoundedSymbols",
                          {pass.red[k].lhs : k \in 1..Len(pass.red)})

\* assert_well_founded starting from every symbol instead of the terminals.
assert_well_founded_from_symbols == WellFoundedLoop(symbols, rules)

assert_well_founded == WellFoundedLoop(apparent_terminals, rules)

assert_no_orphans ==
    LET heads == {rules[i].lhs : i \in 1..Len(rules)}
        produces == [lhs \in heads |->
                        UNION {Range(rules[i].rhs) : i \in {j \in 1..Len(rules) : rules[j].lhs = lhs}}]
        unreachable == symbols \ transitive_closure(Range(start), produces)
    IN  IF unreachable # {} THEN FaultOn("UnreachableSymbols", unreachable) ELSE NoFault

\* A loop over the components of a graph: broken.update(component) for each
\* component of more than one member.
InLargeComponents(graph) ==
    UNION {c \in Range(strongly_connected_components_hashable(graph)) : Cardinality(c) > 1}

\* Taking only plain-passthrough unit rules (Rule.is_rename) for renamings.
TakenForRenamePassthrough(r) == is_rename(r)

\* The rules assert_no_rename_loops takes for renamings.
TakenForRename(r) == Len(r.rhs) = 1

assert_no_rename_loops ==
    LET unit == {i \in 1..Len(rules) : TakenForRename(rules[i])}
        selfish == {rules[i].lhs : i \in {j \in unit : rules[j].lhs = rules[j].rhs[1]}}
        others == {i \in unit : rules[i].lhs # rules[i].rhs[1]}
        renames == [lhs \in {rules[i].lhs : i \in others} |->
                       {rules[i].rhs[1] : i \in {j \in others : rules[j].lhs = lhs}}]
        broken == selfish \cup InLargeComponents(renames)
    IN  IF broken # {} THEN FaultOn("RenamingLoop", broken) ELSE NoFault

RECURSIVE TakeWhile(_, _, _)
\* list(itertools.takewhile(set.__contains__, rhs))
TakeWhile(set, rhs, i) ==
    IF i > Len(rhs) \/ rhs[i] \notin set THEN <<>>
    ELSE <<rhs[i]>> \o TakeWhile(set, rhs, i + 1)

\* The prefix of one rule with its leading lhs kept.
EpsilonPrefixKept(epsilon, r) == TakeWhile(epsilon, r.rhs, 1)

\* The prefix of one rule after the pop(0) of a leading lhs.
EpsilonPrefix(epsilon, r) ==
    LET prefix == TakeWhile(epsilon, r.rhs, 1)
    IN  IF prefix # <<>> /\ prefix[1] = r.lhs THEN Tail(prefix) ELSE prefix

assert_no_epsilon_loops ==
    LET epsilon == find_first_and_epsilon.epsilon
        live == {i \in 1..Len(rules) : TakeWhile(epsilon, rules[i].rhs, 1) # <<>>}
        selfish == {rules[i].lhs : i \in {j \in live :
                        rules[j].lhs \in Range(EpsilonPrefix(epsilon, rules[j]))}}
        reaches == [lhs \in {rules[i].lhs : i \in live} |->
                       UNION {Range(EpsilonPrefix(epsilon, rules[i])) :
                                 i \in {j \in live : rules[j].lhs = lhs}}]
        broken == selfish \cup InLargeComponents(reaches)
    IN  IF broken # {} THEN FaultOn("EpsilonLoop", broken) ELSE NoFault

\* validate with assert_no_orphans called before assert_well_founded.
validate_orphans_first ==
    LET bogons == assert_no_bogons
        orphans == assert_no_orphans
        founded == assert_well_founded
        renames == assert_no_rename_loops
    IN  IF bogons.fault # NoneVal THEN bogons
        ELSE IF orphans.fault # NoneVal THEN orphans
        ELSE IF founded.fault # NoneVal THEN founded
        ELSE IF renames.fault # NoneVal THEN renames
        ELSE assert_no_epsilon_loops

\* The first fault raised by the five calls in turn.
validate ==
    LET bogons == assert_no_bogons
        founded == assert_well_founded
        orphans == assert_no_orphans
        renames == assert_no_rename_loops
    IN  IF bogons.fault # NoneVal THEN bogons
        ELSE IF founded.fault # NoneVal THEN founded
        ELSE IF orphans.fault # NoneVal THEN orphans
        ELSE IF renames.fault # NoneVal THEN renames
        ELSE assert_no_epsilon_loops

Validate ==
    LET raised == validate
    IN  /\ outcome' = [op |-> "validate", raised |-> raised.fault, fault |-> raised]
        /\ UNCHANGED grammar

\* assert_no_epsilon_loops called on its own.
AssertNoEpsilonLoops ==
    LET raised == assert_no_epsilon_loops
    IN  /\ outcome' = [op |-> "assert_no_epsilon_loops", raised |-> raised.fault,
                       fault |-> raised]
        /\ UNCHANGED grammar

\* assert_no_rename_loops called on its own.
AssertNoRenameLoops ==
    LET raised == assert_no_rename_loops
    IN  /\ outcome' = [op |-> "assert_no_rename_loops", raised |-> raised.fault,
                       fault |-> raised]
        /\ UNCHANGED grammar

\* The front-end names a start symbol: grammar.start.append(symbol).
AppendStart(symbol) ==
    /\ start' = Append(start, symbol)
    /\ outcome' = [op |-> "start.append", raised |-> NoneVal]
    /\ UNCHANGED <<symbols, rules, token_precedence, level_assoc, symbol_rule_ids>>

(***************************************************************************)
(* Specification Spec: an operator grammar under construction.  The        *)
(* front-end declares rules and precedence levels in any order, and the    *)
(* table builder asks for shift/reduce decisions.                          *)
(***************************************************************************)
\* [lhs, rhs, prec_sym] of the rules the front-end may declare.
OperatorRules ==
    {[lhs |-> "S", rhs |-> <<"a", "b">>, prec_sym |-> NoneVal],
     [lhs |-> "+", rhs |-> <<"a", "b">>, prec_sym |-> NoneVal],
     [lhs |-> "Expr", rhs |-> <<"Expr", "*", "+">>, prec_sym |-> NoneVal]}
    \cup [lhs : {"Expr"}, rhs : {<<"Expr", "+", "Expr">>}, prec_sym : {NoneVal, "+", "*"}]
\* A well-formed attribute and one whose position is out of range.
OperatorPlaces == {Position(0), Position(3)}
OperatorLevels == {<<"+">>, <<"*">>, <<"+", "*">>, <<"*", "Expr">>}
Lookahead == {"+", "*"}

DeclareRule ==
    \E r \in OperatorRules, places \in OperatorPlaces :
        /\ Len(rules) < MaxRules
        /\ rule(r.lhs, r.rhs, r.prec_sym, NoneVal, places, "line")

DeclarePrecedenceLevel ==
    \E direction \in Directions, syms \in OperatorLevels :
        /\ Len(level_assoc) < MaxLevels
        /\ assoc(direction, syms)

AskShiftReduce ==
    \E symbol \in Lookahead, rule_id \in 0..(Len(rules) - 1) :
        DecideShiftReduce(symbol, rule_id)

Next == DeclareRule \/ DeclarePrecedenceLevel \/ AskShiftReduce

Spec == Init /\ [][Next]_vars

(***************************************************************************)
(* Specification SpecRules: the rule store under declarations that vary    *)
(* the attribute descriptor and the provenance.                            *)
(***************************************************************************)
AttributedLhs == {"S", "Expr"}
AttributedRhs == {<<>>, <<"Expr", "+", "Expr">>}
Attributes ==
    {[constructor |-> NoneVal, places |-> Position(0)],
     [constructor |-> NoneVal, places |-> Position(3)],
     [constructor |-> "binop", places |-> Position(0)],
     [constructor |-> "binop", places |-> Positions(<<0, 2>>)],
     [constructor |-> "binop", places |-> Positions(<<0, 3>>)],
     [constructor |-> "binop", places |-> Positions(<<-1>>)]}
Origins == {"line 1", "line 2"}
AttributedLevels == {<<"+">>, <<"S">>}

DeclareAttributedRule ==
    \E lhs \in AttributedLhs, rhs \in AttributedRhs, attr \in Attributes,
       origin \in Origins :
        /\ Len(rules) < MaxRules
        /\ rule(lhs, rhs, NoneVal, attr.constructor, attr.places, origin)

DeclareLevel ==
    \E syms \in AttributedLevels :
        /\ Len(level_assoc) < MaxLevels
        /\ assoc(LEFT, syms)

NextRules == DeclareAttributedRule \/ DeclareLevel

SpecRules == Init /\ [][NextRules]_vars

(***************************************************************************)
(* Specification SpecAnalysis: a grammar is declared, start symbols are    *)
(* named, and the analyses are run on whatever has been declared so far.   *)
(***************************************************************************)
Production(lhs, rhs) ==
    [lhs |-> lhs, rhs |-> rhs, constructor |-> NoneVal,
     places |-> IF rhs = <<>> THEN Positions(<<>>) ELSE Position(0)]

\* The productions the front-end may declare, and one declaration whose
\* position is out of range (rule() raises, having registered its lhs).
GrammarRules ==
    {Production("S", <<"x">>), Production("A", <<"B", "y">>),
     Production("B", <<"A", "x">>), Production("S", <<"A">>),
     Production("A", <<"S">>), Production("Start", <<"A">>),
     Production("A", <<>>), Production("A", <<"A">>),
     [lhs |-> "x", rhs |-> <<>>, constructor |-> NoneVal, places |-> Position(0)]}
StartSymbols == {"S", "Start"}
BogusSymbols == {<<"y">>}

DeclareProduction ==
    \E r \in GrammarRules :
        /\ Len(rules) < MaxGrammar
        /\ rule(r.lhs, r.rhs, NoneVal, r.constructor, r.places, "line")

\* Each precedence-only symbol is declared once.
DeclareBogus ==
    \E syms \in BogusSymbols :
        /\ Range(syms) \cap DOMAIN token_precedence = {}
        /\ assoc(BOGUS, syms)

NameStart ==
    \E symbol \in StartSymbols :
        /\ symbol \notin Range(start)
        /\ AppendStart(symbol)

NextAnalysis ==
    \/ DeclareProduction
    \/ DeclareBogus
    \/ NameStart
    \/ Validate
    \/ AssertNoRenameLoops
    \/ AssertNoEpsilonLoops

SpecAnalysis == Init /\ [][NextAnalysis]_vars

(***************************************************************************)
(* Specification SpecFirst: every grammar of at most MaxFirstRules rules   *)
(* with left-hand sides A, B and right-hand sides of at most two symbols   *)
(* among A, B, x, in every order of declaration, and its analysis.         *)
(***************************************************************************)
FirstLhs == {"A", "B"}
FirstSymbols == {"A", "B", "x"}
FirstRhs ==
    {<<>>} \cup {<<a>> : a \in FirstSymbols}
           \cup {<<a, b>> : a \in FirstSymbols, b \in FirstSymbols}

DeclareAnyRule ==
    \E lhs \in FirstLhs, rhs \in FirstRhs :
        /\ Len(rules) < MaxFirstRules
        /\ rule(lhs, rhs, NoneVal, NoneVal, Production(lhs, rhs).places, "line")

NextFirst == DeclareAnyRule \/ FindFirstAndEpsilon

SpecFirst == Init /\ [][NextFirst]_vars

(***************************************************************************)
(* Grammars of unit rules with and without a constructor, and the          *)
(* rename-loop check on them.                                              *)
(***************************************************************************)
RenameLhs == {"S", "A"}
RenameRhs == {<<"x">>, <<"S">>, <<"A">>, <<"A", "x">>}
\* Plain passthrough of position 0, or a named constructor applied to it.
RenameAttributes ==
    {[constructor |-> NoneVal, places |-> Position(0)],
     [constructor |-> "wrap", places |-> Positions(<<0>>)]}

DeclareUnitRule ==
    \E lhs \in RenameLhs, rhs \in RenameRhs, a \in RenameAttributes :
        /\ Len(rules) < MaxRenameRules
        /\ rule(lhs, rhs, NoneVal, a.constructor, a.places, "line")

NextRenames == DeclareUnitRule \/ AssertNoRenameLoops

SpecRenames == Init /\ [][NextRenames]_vars

(***************************************************************************)
(* Properties of precedence-based conflict resolution (under Spec).        *)
(***************************************************************************)
HasLevel(s) == s \in DOMAIN token_precedence

\* The leftmost symbol of rhs that has a declared level, or None.
FirstLeveled(rhs) ==
    IF \E i \in 1..Len(rhs) : HasLevel(rhs[i])
    THEN rhs[CHOOSE i \in 1..Len(rhs) :
                 HasLevel(rhs[i]) /\ \A j \in 1..(i - 1) : ~HasLevel(rhs[j])]
    ELSE NoneVal

\* The rule's precedence anchor: the explicit one, else the inferred one.
AnchorOf(rule_id) ==
    IF At(rules, rule_id).prec_sym # NoneVal
    THEN At(rules, rule_id).prec_sym
    ELSE FirstLeveled(At(rules, rule_id).rhs)

Decided == outcome.op = "decide_shift_reduce"

\* Both levels of the last decision are determinable.
BothLevelsKnown ==
    /\ Decided
    /\ HasLevel(outcome.symbol)
    /\ AnchorOf(outcome.rule_id) # NoneVal
    /\ HasLevel(AnchorOf(outcome.rule_id))

AskedSp == token_precedence[outcome.symbol]
AskedRp == token_precedence[AnchorOf(outcome.rule_id)]

\* C1: whenever the lookahead's level sp and the level rp of the rule's
\* precedence anchor are both determinable, decide_shift_reduce returns LEFT
\* when rp < sp, RIGHT when rp > sp, and the associativity tag declared for the
\* common level when rp = sp.
C1_DecisionByLevels ==
    BothLevelsKnown =>
        /\ outcome.raised = NoneVal
        /\ outcome.ret = IF AskedRp < AskedSp THEN LEFT
                         ELSE IF AskedRp > AskedSp THEN RIGHT
                         ELSE At(level_assoc, AskedRp)

\* C1 witness: a decision between two different symbols of one NONASSOC level.
C1_Witness ==
    /\ BothLevelsKnown
    /\ AskedRp = AskedSp
    /\ outcome.symbol # AnchorOf(outcome.rule_id)
    /\ outcome.ret = NONASSOC

\* The grammar of the scenario: S -> a b, Expr -> Expr + Expr anchored on +,
\* levels LEFT {+} then LEFT {*}, and the question asked for lookahead * and
\* the rule of +.  (decide_shift_reduce never reads self.start.)
PlusRule == [lhs |-> "Expr", rhs |-> <<"Expr", "+", "Expr">>, prec_sym |-> "+"]
IsPlusRule(rule_id) ==
    [f \in {"lhs", "rhs", "prec_sym"} |-> At(rules, rule_id)[f]] = PlusRule
TimesAgainstPlus ==
    /\ Decided
    /\ \E i \in 1..Len(rules) : rules[i].lhs = "S" /\ rules[i].rhs = <<"a", "b">>
    /\ level_assoc = <<LEFT, LEFT>>
    /\ HasLevel("+") /\ token_precedence["+"] = 0
    /\ HasLevel("*") /\ token_precedence["*"] = 1
    /\ outcome.symbol = "*"
    /\ IsPlusRule(outcome.rule_id)

\* C2 as stated: a lookahead whose level was declared later than the level of
\* the rule's anchor makes decide_shift_reduce report "shift" (RIGHT).
C2_LaterLevelShifts ==
    (BothLevelsKnown /\ AskedSp > AskedRp) => outcome.ret = RIGHT

\* C2 amended: a lookahead whose level was declared later than the level of
\* the rule's anchor makes decide_shift_reduce report "reduce" (LEFT), so an
\* earlier-declared level binds tighter; in the scenario of + then *,
\* decide_shift_reduce('*', rule of +) reports LEFT.
C2_LaterLevelReduces ==
    /\ (BothLevelsKnown /\ AskedSp > AskedRp) =>
            outcome.raised = NoneVal /\ outcome.ret = LEFT
    /\ TimesAgainstPlus => outcome.ret = LEFT

\* C2 witness: the scenario's question has been asked.
C2_Witness == TimesAgainstPlus /\ outcome.raised = NoneVal

\* C3 as stated: decide_shift_reduce raises nothing, and returns None whenever
\* the lookahead has no level or the rule's anchor (explicit, else the first
\* leveled rhs symbol) is absent or has no level.
C3_NoOpinionNeverRaises ==
    Decided =>
        /\ outcome.raised = NoneVal
        /\ (~BothLevelsKnown) => outcome.ret = NoneVal

\* C5: no symbol has both a precedence level and an entry in symbol_rule_ids
\* after any call, failed calls included; rule() raises
\* NonTerminalsCannotHavePrecedence when lhs has a level, and assoc() raises it
\* on reaching a symbol that is a key of symbol_rule_ids.
PrecedenceOnlyOnTerminals ==
    (DOMAIN token_precedence) \cap (DOMAIN symbol_rule_ids) = {}

\* The first symbol of the list at which assoc's loop stops, or 0.
FirstRefused(syms) ==
    IF \E i \in 1..Len(syms) :
           syms[i] \in DOMAIN symbol_rule_ids \/ syms[i] \in DOMAIN token_precedence
                \/ \E j \in 1..(i - 1) : syms[j] = syms[i]
    THEN CHOOSE i \in 1..Len(syms) :
           /\ syms[i] \in DOMAIN symbol_rule_ids \/ syms[i] \in DOMAIN token_precedence
                \/ \E j \in 1..(i - 1) : syms[j] = syms[i]
           /\ \A k \in 1..(i - 1) :
                ~(syms[k] \in DOMAIN symbol_rule_ids \/ syms[k] \in DOMAIN token_precedence
                    \/ \E j \in 1..(k - 1) : syms[j] = syms[k])
    ELSE 0

C5_Step ==
    /\ PrecedenceOnlyOnTerminals'
    /\ \A r \in OperatorRules, places \in OperatorPlaces :
         (rule(r.lhs, r.rhs, r.prec_sym, NoneVal, places, "line") /\ HasLevel(r.lhs))
            => /\ outcome'.raised = "NonTerminalsCannotHavePrecedence"
               /\ rules' = rules
    /\ \A direction \in Directions, syms \in OperatorLevels :
         (/\ assoc(direction, syms)
          /\ FirstRefused(syms) # 0
          /\ syms[FirstRefused(syms)] \in DOMAIN symbol_rule_ids)
            => /\ outcome'.raised = "NonTerminalsCannotHavePrecedence"
               /\ syms[FirstRefused(syms)] \notin DOMAIN token_precedence'

C5_TerminalsOnly == [][C5_Step]_vars

\* C5 witness: assoc gave * a level and then refused Expr, which owns a rule.
C5_Witness ==
    /\ outcome.op = "assoc"
    /\ outcome.raised = "NonTerminalsCannotHavePrecedence"
    /\ HasLevel("*")
    /\ "Expr" \in DOMAIN symbol_rule_ids
    /\ Len(rules) > 0

(***************************************************************************)
(* Properties of the rule store (under SpecRules).                         *)
(***************************************************************************)
Holds(lhs, rhs) == \E i \in 1..Len(rules) : rules[i].lhs = lhs /\ rules[i].rhs = rhs

\* The call rule(lhs, rhs, None, attr, origin) is made in a state that holds (lhs, rhs).
RepeatedBy(lhs, rhs, attr, origin) ==
    /\ Holds(lhs, rhs)
    /\ rule(lhs, rhs, NoneVal, attr.constructor, attr.places, origin)

\* The descriptor is one that rule()'s assertions let through.
Admitted(rhs, attr) ==
    \/ /\ attr.places.kind = "int"
       /\ attr.constructor = NoneVal
       /\ attr.places.at[1] \in 0..(Len(rhs) - 1)
    \/ /\ attr.places.kind = "list"
       /\ \A p \in Range(attr.places.at) : p < Len(rhs)

\* C4 as stated: declaring (lhs, rhs) again always raises DuplicateRule, whatever
\* the attribute descriptor (out-of-range positions included) and the origin.
C4_AlwaysDuplicateRule ==
    [][\A lhs \in AttributedLhs, rhs \in AttributedRhs, attr \in Attributes,
          origin \in Origins :
            RepeatedBy(lhs, rhs, attr, origin) => outcome'.raised = "DuplicateRule"]_vars

\* C4 amended: declaring (lhs, rhs) again always fails and stores nothing; it
\* raises DuplicateRule when the descriptor passes rule()'s own check of
\* `places` and AssertionError when it does not, whatever the origin.
C4_DuplicateAfterPlacesCheck ==
    [][\A lhs \in AttributedLhs, rhs \in AttributedRhs, attr \in Attributes,
          origin \in Origins :
            RepeatedBy(lhs, rhs, attr, origin) =>
                /\ rules' = rules
                /\ outcome'.raised = IF Admitted(rhs, attr) THEN "DuplicateRule"
                                     ELSE "AssertionError"]_vars

\* C4 witness: a rule was declared again with another descriptor and origin.
C4_Witness ==
    /\ outcome.op = "rule"
    /\ outcome.raised = "DuplicateRule"
    /\ \E i \in 1..Len(rules) :
         /\ rules[i].lhs = outcome.arg.lhs
         /\ rules[i].rhs = outcome.arg.rhs
         /\ rules[i].places # outcome.arg.places
         /\ rules[i].constructor # outcome.arg.constructor
         /\ rules[i].origin # outcome.arg.origin

\* C6 as stated: every stored rule references only positions p of its rhs,
\* 0 <= p < len(rhs), in the bare-position form and in a constructor's list.
C6_StoredPositionsInRange ==
    \A i \in 1..Len(rules) :
        \A p \in Range(rules[i].places.at) : 0 <= p /\ p < Len(rules[i].rhs)

(***************************************************************************)
(* Properties of validation and analysis (under SpecAnalysis).             *)
(***************************************************************************)
\* The productions held, as a set of <<lhs, rhs>>.
Productions == {<<rules[i].lhs, rules[i].rhs>> : i \in 1..Len(rules)}

Validated == outcome.op = "validate"

TheChecks ==
    <<assert_no_bogons, assert_well_founded, assert_no_orphans,
      assert_no_rename_loops, assert_no_epsilon_loops>>

\* S -> x, A -> B y, B -> A x with start symbol S.
IllFoundedOrphans ==
    /\ Productions = {<<"S", <<"x">>>>, <<"A", <<"B", "y">>>>, <<"B", <<"A", "x">>>>}
    /\ DOMAIN symbol_rule_ids = {"S", "A", "B"}
    /\ start = <<"S">>
    /\ assert_no_bogons = NoFault

\* C7: validate raises the fault of the first of no-bogus-symbols,
\* well-foundedness, reachability, no-rename-loops, no-epsilon-loops that
\* fails, and nothing when none fails; for S -> x, A -> B y, B -> A x with
\* start symbol S it raises IllFoundedSymbols citing {A, B}.
C7_FirstFailingCheck ==
    Validated =>
        LET checks == TheChecks
        IN  /\ \A k \in 1..Len(checks) :
                 (/\ checks[k].fault # NoneVal
                  /\ \A j \in 1..(k - 1) : checks[j].fault = NoneVal)
                    => outcome.fault = checks[k]
            /\ (\A k \in 1..Len(checks) : checks[k].fault = NoneVal)
                    => outcome.fault = NoFault
            /\ IllFoundedOrphans
                    => outcome.fault = FaultOn("IllFoundedSymbols", {"A", "B"})

\* C7 witness: validate has run on the scenario, where reachability fails too.
C7_Witness ==
    /\ Validated
    /\ IllFoundedOrphans
    /\ assert_no_orphans = FaultOn("UnreachableSymbols", {"A", "B", "y"})

\* The grammar whose only rules are S -> A and A -> S.
RenameCycle ==
    /\ Productions = {<<"S", <<"A">>>>, <<"A", <<"S">>>>}
    /\ DOMAIN symbol_rule_ids = {"S", "A"}

\* C8 as stated: for the grammar S -> A, A -> S, validate raises RenamingLoop
\* citing {S, A}.
C8_ValidateRaisesRenamingLoop ==
    (Validated /\ RenameCycle) => outcome.fault = FaultOn("RenamingLoop", {"S", "A"})

\* C8 amended: for the grammar S -> A, A -> S, validate raises
\* IllFoundedSymbols citing {S, A}: well-foundedness is checked before rename
\* loops, and neither symbol derives a string of terminals.
C8_ValidateRaisesIllFounded ==
    (Validated /\ RenameCycle) => outcome.fault = FaultOn("IllFoundedSymbols", {"S", "A"})

\* C8 witness: validate has run on the rename cycle.
C8_Witness == Validated /\ RenameCycle /\ start = <<"S">> /\ level_assoc = <<>>

\* The grammar Start -> A, A -> (empty), A -> A.
NullableSelfRename ==
    /\ Productions = {<<"Start", <<"A">>>>, <<"A", <<>>>>, <<"A", <<"A">>>>}
    /\ DOMAIN symbol_rule_ids = {"Start", "A"}

\* C9 as stated: for Start -> A, A -> (empty), A -> A the epsilon-loop check
\* raises EpsilonLoop citing {A}.
C9_EpsilonLoopRaised ==
    (outcome.op = "assert_no_epsilon_loops" /\ NullableSelfRename)
        => outcome.fault = FaultOn("EpsilonLoop", {"A"})

\* C9 amended: for Start -> A, A -> (empty), A -> A the epsilon-loop check
\* raises nothing: the nullable prefix of A -> A is the single leading
\* occurrence of A, and nothing is left of it once that occurrence is
\* discarded.
C9_EpsilonLoopNotRaised ==
    (outcome.op = "assert_no_epsilon_loops" /\ NullableSelfRename)
        => outcome.fault = NoFault

\* C9 witness: the epsilon-loop check has run on the scenario, with A nullable.
C9_Witness ==
    /\ outcome.op = "assert_no_epsilon_loops"
    /\ NullableSelfRename
    /\ "A" \in find_first_and_epsilon.epsilon

RECURSIVE NullableFrom(_)
\* The symbols that derive the empty string: the least set holding the lhs of
\* every rule whose rhs lies within it.
NullableFrom(known) ==
    LET more == known \cup {rules[i].lhs : i \in {j \in 1..Len(rules) :
                                              Range(rules[j].rhs) \subseteq known}}
    IN  IF more = known THEN known ELSE NullableFrom(more)

Nullable == NullableFrom({})

\* The symbols a derivation from X can begin with after one step.
BeginsWith(X) ==
    UNION {{rules[i].rhs[k] : k \in {n \in 1..Len(rules[i].rhs) :
                                       \A j \in 1..(n - 1) : rules[i].rhs[j] \in Nullable}} :
              i \in {j \in 1..Len(rules) : rules[j].lhs = X}}

RECURSIVE BeginsWithStar(_)
BeginsWithStar(set) ==
    LET more == set \cup UNION {BeginsWith(X) : X \in set}
    IN  IF more = set THEN set ELSE BeginsWithStar(more)

NonTerminals == DOMAIN symbol_rule_ids

\* The terminals that can begin a derivation from X.
FirstOf(X) == BeginsWithStar({X}) \ NonTerminals

Analysed == outcome.op = "find_first_and_epsilon"

\* C10: find_first_and_epsilon terminates; epsilon is exactly the set of
\* symbols that derive the empty string; first[X] is exactly the set of
\* terminals that can begin a derivation from X (first[t] = {t} for a terminal
\* t); no FIRST set contains a nonterminal; and the grammar is left as it was,
\* so that calling again returns the same result.
C10_FirstAndEpsilon ==
    Analysed =>
        /\ outcome.ret.halted
        /\ outcome.ret.epsilon = Nullable
        /\ DOMAIN outcome.ret.first = symbols
        /\ \A X \in symbols : outcome.ret.first[X] = FirstOf(X)
        /\ \A t \in symbols \ NonTerminals : outcome.ret.first[t] = {t}
        /\ \A X \in symbols : outcome.ret.first[X] \cap NonTerminals = {}
        /\ find_first_and_epsilon = outcome.ret

\* C10 witness: the analysis of A -> B x, B -> A, A -> (empty): indirect left
\* recursion through a nullable symbol.
C10_Witness ==
    /\ Analysed
    /\ Productions = {<<"A", <<"B", "x">>>>, <<"B", <<"A">>>>, <<"A", <<>>>>}
    /\ outcome.ret.epsilon = {"A", "B"}
    /\ outcome.ret.first["B"] = {"x"}
    /\ outcome.ret.first["A"] = {"x"}

(***************************************************************************)
(* Properties of the rename-loop check (under SpecRenames).                *)
(***************************************************************************)
\* The edges lhs -> rhs[1] of the single-symbol rules that satisfy Taken.
UnitEdges(Taken(_)) ==
    {<<rules[i].lhs, rules[i].rhs[1]>> :
        i \in {j \in 1..Len(rules) : Len(rules[j].rhs) = 1 /\ Taken(rules[j])}}

RECURSIVE ReachedFrom(_, _)
\* The symbols reached from the set seen by following edges.
ReachedFrom(edges, seen) ==
    LET more == seen \cup {e[2] : e \in {d \in edges : d[1] \in seen}}
    IN  IF more = seen THEN seen ELSE ReachedFrom(edges, more)

\* The symbols on a self-loop, or on a cycle through two or more symbols.
OnRenameLoop(edges) ==
    LET proper == {e \in edges : e[1] # e[2]}
    IN  {e[1] : e \in {d \in edges : d[1] = d[2]}}
        \cup {e[1] : e \in {d \in proper : d[1] \in ReachedFrom(proper, {d[2]})}}

AnyUnitRule(r) == TRUE

RenamesChecked == outcome.op = "assert_no_rename_loops"

\* C11 as stated: assert_no_rename_loops raises RenamingLoop exactly when
\* the plain-passthrough single-symbol rules (no constructor) hold a self-loop
\* or a cycle through two or more symbols; a single-symbol rule that carries
\* a named constructor contributes neither an edge nor a self-loop fault.
C11_PassthroughRulesOnly ==
    RenamesChecked =>
        (outcome.raised = "RenamingLoop" <=> OnRenameLoop(UnitEdges(is_rename)) # {})

\* C11 amended: assert_no_rename_loops builds its graph from every rule
\* whose rhs has length exactly one, with or without a constructor, and
\* raises RenamingLoop, citing the symbols involved, exactly when such a rule
\* is a self-loop or such rules form a cycle through two or more symbols.
C11_EverySingleSymbolRule ==
    RenamesChecked =>
        LET looping == OnRenameLoop(UnitEdges(AnyUnitRule))
        IN  outcome.fault = IF looping # {} THEN FaultOn("RenamingLoop", looping)
                            ELSE NoFault

\* S -> A through a constructor and A -> S as a plain passthrough: the check
\* raises RenamingLoop citing {S, A}.
C11_Witness ==
    /\ RenamesChecked
    /\ \E i \in 1..Len(rules) :
           /\ rules[i].lhs = "S" /\ rules[i].rhs = <<"A">>
           /\ rules[i].constructor = "wrap"
    /\ \E i \in 1..Len(rules) : rules[i].lhs = "A" /\ rules[i].rhs = <<"S">> /\ is_rename(rules[i])
    /\ outcome.fault = FaultOn("RenamingLoop", {"S", "A"})

====
